---- MODULE Spec2Model ----
(***************************************************************************)
(* A model of bollie-retain.c, the LV2 "sound retainer": the instance      *)
(* struct BollieRetain, and the host-called operations instantiate(),      *)
(* activate(), run() and cleanup().                                        *)
(*                                                                         *)
(* run() is modelled at the granularity of its code: RunBegin is lines     *)
(* 167-201 (shadow copies, trigger latch, gain targets), RunSample is one  *)
(* iteration of the for loop of lines 204-260, RunEnd is the write-back of *)
(* lines 261-266.  The struct is the record self; the shadow copies that   *)
(* run() keeps on its stack are the variables pos_w, pos_r, listening,     *)
(* looping, dry_gain, wet_gain.                                            *)
(*                                                                         *)
(* Numbers.  The sample rate is a double; it is held here in quarters of   *)
(* a Hz (rate4 = 4 * rate), which is exact in binary floating point, so    *)
(* that the conversions to int of lines 101 and 103 are computed as C      *)
(* computes them (truncation).  Audio samples are small integers.  Gains   *)
(* are fixed point, GainOne units making 1.0.  The two float arrays of     *)
(* MAX_TAPE_LEN elements are held by their support: a function from the    *)
(* indices that hold a non-zero sample to that sample (Rd, Wr).            *)
(***************************************************************************)
EXTENDS Integers, Sequences, FiniteSets, TLC

\* ---------------------------------------------------------------- constants

\* #define MAX_TAPE_LEN 960000: the capacity of buffer_l and buffer_r.
MAX_TAPE_LEN == 960000

\* ------------------------------------------------------------------- bounds

\* The largest sample rate of the main specification, in quarters of a Hz:
\* rates 0.25, 0.5, ..., MaxRate4 / 4.
MaxRate4 == 8

\* The largest block length n_samples the host passes to run().
MaxBlock == 2

\* The fixed-point resolution of the gains: GainOne units are the gain 1.0.
GainOne == 100

\* Half the width of the window of sample rates around MAX_TAPE_LEN / 5 that
\* the specification of instantiate() alone draws from, in quarters of a Hz.
RateWindow == 60

\* The sample rates of the main specification.
Rates == 1..MaxRate4

\* The sample rates around the capacity limit: 5 * rate crosses MAX_TAPE_LEN
\* at rate = 192000.
BoundaryRates == (4 * 192000 - RateWindow)..(4 * 192000 + RateWindow)

\* The host feeds a periodic stereo signal: SignalPeriod is its period in
\* samples, and the phase it starts at is arbitrary.
SignalPeriod == 2

\* The stereo input sample <<left, right>> at phase t of the signal.
Signal(t) == <<t + 1, SignalPeriod - t>>

\* The values of the trigger control port: at rest, and fired.
Triggers == {0, 1}

\* The values of the blend control port: one per branch of the gain law, and
\* one on each side outside [0, 100].
Blends == {-1, 0, 25, 50, 75, 100, 101}

\* The marker of an output sample the plugin has not written.
Unwritten == "unwritten"

VARIABLES
    pc,               \* "none" | "instantiated" | "idle" | "run"
    t,                \* the phase of the host's input signal
    self,             \* the BollieRetain struct
    ctl_blend,        \* the value at the blend port
    ctl_trigger,      \* the value at the trigger port
    n_samples,        \* run()'s parameter
    i,                \* the loop index of run()
    pos_w, pos_r,     \* run()'s shadow copies
    listening, looping,
    dry_gain, wet_gain,
    target_dry_gain, target_wet_gain,
    cur_s_l, cur_s_r, \* the input samples of the last iteration
    wet_s_l, wet_s_r, \* the wet samples of the last iteration
    coeff,            \* the fade coefficient of the last iteration
    output_l, output_r, \* the output buffers of the block in progress
    phase,            \* the branch the last iteration took
    crossfaded,       \* the last iteration summed two buffer reads
    wrapped,          \* the read cursor has wrapped to the fade offset
    written,          \* the indices stored since the last capture began
    due,              \* the samples left of the response to the trigger
    reset_dirty,      \* the last call was activate(), on a used state
    ub                \* a division by zero has been executed

vars == <<pc, t, self, ctl_blend, ctl_trigger, n_samples, i, pos_w, pos_r,
          listening, looping, dry_gain, wet_gain, target_dry_gain,
          target_wet_gain, cur_s_l, cur_s_r, wet_s_l, wet_s_r, coeff,
          output_l, output_r, phase, crossfaded, wrapped, written, due,
          reset_dirty, ub>>

\* ------------------------------------------------------------ the buffers

\* An array of floats that calloc() or activate() has zeroed: no index holds
\* a non-zero sample.
ZeroBuffer == <<>>

\* buffer[idx]
Rd(buffer, idx) == IF idx \in DOMAIN buffer THEN buffer[idx] ELSE 0

\* buffer[idx] = v
Wr(buffer, idx, v) ==
    [j \in (IF v = 0 THEN DOMAIN buffer \ {idx} ELSE DOMAIN buffer \cup {idx})
        |-> IF j = idx THEN v ELSE buffer[j]]

\* ------------------------------------------------------------ instantiate

\* (int)(rate): the conversion of line 101, rate4 being 4 * rate.
FadeSamples(rate4) == rate4 \div 4

\* (int)(5 * rate): the conversion of line 103.
LoopSamples(rate4) == (5 * rate4) \div 4

\* The struct after calloc() and lines 99-103.
NewInstance(rate4) ==
    [rate |-> rate4,
     n_loop_samples |-> LoopSamples(rate4),
     n_fade_samples |-> FadeSamples(rate4),
     pos_w |-> 0, pos_r |-> 0,
     listening |-> FALSE, looping |-> FALSE,
     dry_gain |-> 0, wet_gain |-> 0,
     buffer_l |-> ZeroBuffer, buffer_r |-> ZeroBuffer]

\* No instance: before instantiate() and after cleanup().
NoInstance == [rate |-> 0]

\* The values run()'s stack variables and the ports hold while run() is not
\* executing: they do not exist then.
NoLocals ==
    /\ ctl_blend' = 0 /\ ctl_trigger' = 0
    /\ n_samples' = 0 /\ i' = 0
    /\ pos_w' = 0 /\ pos_r' = 0
    /\ listening' = FALSE /\ looping' = FALSE
    /\ dry_gain' = 0 /\ wet_gain' = 0
    /\ target_dry_gain' = 0 /\ target_wet_gain' = 0
    /\ cur_s_l' = 0 /\ cur_s_r' = 0
    /\ wet_s_l' = 0 /\ wet_s_r' = 0
    /\ coeff' = 1
    /\ phase' = "none"
    /\ crossfaded' = FALSE

locals == <<ctl_blend, ctl_trigger, n_samples, i, pos_w, pos_r, listening,
            looping, dry_gain, wet_gain, target_dry_gain, target_wet_gain,
            cur_s_l, cur_s_r, wet_s_l, wet_s_r, coeff, phase, crossfaded>>

NoOutput == [k \in 0..(MaxBlock - 1) |-> Unwritten]

Init ==
    /\ pc = "none"
    /\ t \in 0..(SignalPeriod - 1)
    /\ self = NoInstance
    /\ ctl_blend = 0 /\ ctl_trigger = 0
    /\ n_samples = 0 /\ i = 0
    /\ pos_w = 0 /\ pos_r = 0
    /\ listening = FALSE /\ looping = FALSE
    /\ dry_gain = 0 /\ wet_gain = 0
    /\ target_dry_gain = 0 /\ target_wet_gain = 0
    /\ cur_s_l = 0 /\ cur_s_r = 0
    /\ wet_s_l = 0 /\ wet_s_r = 0
    /\ coeff = 1
    /\ output_l = NoOutput /\ output_r = NoOutput
    /\ phase = "none"
    /\ crossfaded = FALSE
    /\ wrapped = FALSE
    /\ written = {}
    /\ due = 0
    /\ reset_dirty = FALSE
    /\ ub = FALSE

\* instantiate(descriptor, rate, ...): never fails, whatever the rate.
Instantiate(rate4) ==
    /\ pc = "none"
    /\ pc' = "instantiated"
    /\ self' = NewInstance(rate4)
    /\ UNCHANGED <<t, locals, output_l, output_r, wrapped, written, due,
                   reset_dirty, ub>>

\* cleanup(instance): free().
Cleanup ==
    /\ pc \in {"instantiated", "idle"}
    /\ pc' = "none"
    /\ self' = NoInstance
    /\ wrapped' = FALSE
    /\ written' = {}
    /\ due' = 0
    /\ reset_dirty' = FALSE
    /\ UNCHANGED <<t, locals, output_l, output_r, ub>>

\* --------------------------------------------------------------- activate

\* Activated with the read position left where it was.
Activated_KeepsReadCursor(s) ==
    [s EXCEPT !.buffer_l = ZeroBuffer, !.buffer_r = ZeroBuffer,
              !.pos_w = 0,
              !.dry_gain = 0, !.wet_gain = 0,
              !.listening = FALSE, !.looping = TRUE]

\* The struct after activate(): both buffers zeroed, the state reset.
Activated(s) ==
    [s EXCEPT !.buffer_l = ZeroBuffer, !.buffer_r = ZeroBuffer,
              !.pos_r = 0, !.pos_w = 0,
              !.dry_gain = 0, !.wet_gain = 0,
              !.listening = FALSE, !.looping = TRUE]

\* activate(instance), called by the host while run() is not executing
\* (deactivate() is empty, so deactivate(); activate() is this action too).
Activate ==
    /\ pc \in {"instantiated", "idle"}
    /\ pc' = "idle"
    /\ self' = Activated(self)
    /\ wrapped' = FALSE
    /\ written' = {}
    /\ due' = 0
    /\ reset_dirty' = (pc = "idle" /\ self # Activated(self))
    /\ UNCHANGED <<t, locals, output_l, output_r, ub>>

\* -------------------------------------------------------------------- run

\* Latch with the trigger port never read.
Latch_Deaf(trigger, lis) == lis

\* Latch with >= 0 for > 0: a trigger at rest fires.
Latch_AtRest(trigger, lis) == IF trigger >= 0 /\ ~lis THEN TRUE ELSE lis

\* Latch as a toggle: a trigger > 0 flips listening, so it cancels a capture.
Latch_Toggle(trigger, lis) == IF trigger > 0 THEN ~lis ELSE lis

\* Lines 180-183: the trigger port, read once per block, sets listening.
Latch(trigger, lis) == IF trigger > 0 /\ ~lis THEN TRUE ELSE lis

\* powf(10.0f, x) in fixed point, x100 being 100 * x, for the exponents
\* x <= 0 that are whole numbers (the blends 25 and 75 of Blends give -1).
Pow10(x100) == GainOne \div (10 ^ ((0 - x100) \div 100))

\* TargetDry with the blend clamped to [0, 100]: above 100 counts as 100.
TargetDry_Clamped(blend) ==
    IF blend > 0 /\ blend < 50 THEN GainOne
    ELSE IF blend < 100 /\ blend > 50 THEN Pow10((blend - 50) * (0 - 4))
    ELSE IF blend = 50 THEN GainOne
    ELSE IF blend >= 100 THEN 0
    ELSE GainOne

\* Lines 186-201: target_dry_gain.
TargetDry(blend) ==
    IF blend > 0 /\ blend < 50 THEN GainOne
    ELSE IF blend < 100 /\ blend > 50 THEN Pow10((blend - 50) * (0 - 4))
    ELSE IF blend = 50 THEN GainOne
    ELSE IF blend = 100 THEN 0
    ELSE GainOne

\* Lines 186-201: target_wet_gain.
TargetWet(blend) ==
    IF blend > 0 /\ blend < 50 THEN Pow10((blend - 50) * 4)
    ELSE IF blend < 100 /\ blend > 50 THEN GainOne
    ELSE IF blend = 50 THEN GainOne
    ELSE IF blend = 100 THEN GainOne
    ELSE 0

\* Lines 207-208: gain = target * 0.01f + gain * 0.99f, in fixed point.
Smooth(target, gain) == (target * 1 + gain * 99) \div 100

\* Line 216: the write phase.
WritePhase(lis, loop) == lis /\ ~loop

\* ReadPhase as an if of its own, taken whatever the write phase did.
ReadPhase_Always(lis, loop) == TRUE

\* Line 234: the read phase, the else-if of the write phase.
ReadPhase(lis, loop) == ~WritePhase(lis, loop) /\ loop

\* FadeIn with <= for <.
FadeIn_Inclusive(w, nf) == w <= nf

\* Line 218: the sample lies in the fade-in.
FadeIn(w, nf) == w < nf

\* Line 221: the sample lies in the fade-out (the else-if of line 218).
FadeOut(w, nf, nl) == ~FadeIn(w, nf) /\ w >= nl - nf

\* Lines 219 and 222 evaluate 1/n_fade_samples: the division is executed in
\* the two fade branches, and there only.
Divides(w, nf, nl) == FadeIn(w, nf) \/ FadeOut(w, nf, nl)

\* Lines 215-223: coeff.  1/n_fade_samples divides two ints, so it is
\* C's integer division, and the product with the int cursor is an int,
\* converted to float on assignment.
Coeff(w, nf, nl) ==
    IF FadeIn(w, nf) THEN (1 \div nf) * w
    ELSE IF FadeOut(w, nf, nl) THEN (1 \div nf) * (nl - 1 - w)
    ELSE 1

\* The values coeff can take: Coeff, or, the division being by zero
\* (undefined behaviour), whatever the build leaves there.
CoeffValues(w, nf, nl) ==
    IF Divides(w, nf, nl) /\ nf = 0 THEN {0, 1} ELSE {Coeff(w, nf, nl)}

\* CrossFade with the test of listening dropped.
CrossFade_IgnoresListening(r, nf, nl, lis) == r >= nl - nf

\* CrossFade beginning one sample early.
CrossFade_Early(r, nf, nl, lis) == r >= nl - nf - 1 /\ ~lis

\* Line 236: the read cursor is in the crossfade region.
CrossFade(r, nf, nl, lis) == r >= nl - nf /\ ~lis

\* Lines 236-245: the wet sample read from one buffer.
WetSample(buffer, r, nf, nl, lis) ==
    IF CrossFade(r, nf, nl, lis)
    THEN Rd(buffer, r) + Rd(buffer, r - (nl - nf))
    ELSE Rd(buffer, r)

\* NextPosR with > for >=: the cursor wraps one sample late.
NextPosR_Late(r, nf, nl, lis) ==
    IF r + 1 > nl THEN (IF lis THEN 0 ELSE nf) ELSE r + 1

\* NextPosR wrapping to the start of the buffer.
NextPosR_ToStart(r, nf, nl, lis) == IF r + 1 >= nl THEN 0 ELSE r + 1

\* NextPosR with the test of listening dropped: every wrap goes to the fade
\* offset.
NextPosR_ToFade(r, nf, nl, lis) == IF r + 1 >= nl THEN nf ELSE r + 1

\* Lines 246-256: the read cursor after the sample.
NextPosR(r, nf, nl, lis) ==
    IF r + 1 >= nl THEN (IF lis THEN 0 ELSE nf) ELSE r + 1

\* NextLooping with the test of listening dropped: every wrap clears looping.
NextLooping_AlwaysClears(r, nl, lis) == IF r + 1 >= nl THEN FALSE ELSE TRUE

\* Lines 248-252: looping after the sample of the read phase.
NextLooping(r, nl, lis) == IF r + 1 >= nl /\ lis THEN FALSE ELSE TRUE

\* Lines 258-259: the output sample.
Mix(cur, dry, wet_s, wet) == cur * dry + wet_s * wet

\* Lines 167-201: run() up to its loop.
RunBeginWith(n, trigger, blend) ==
    /\ pc = "idle"
    /\ n_samples' = n
    /\ ctl_trigger' = trigger
    /\ ctl_blend' = blend
    /\ listening' = Latch(trigger, self.listening)
    /\ target_dry_gain' = TargetDry(blend)
    /\ target_wet_gain' = TargetWet(blend)
    /\ due' = IF trigger > 0 /\ ~self.listening
              THEN (self.n_loop_samples - self.pos_r) + self.n_loop_samples + 1
              ELSE due
    /\ reset_dirty' = FALSE
    /\ pc' = "run"
    /\ i' = 0
    /\ dry_gain' = self.dry_gain
    /\ wet_gain' = self.wet_gain
    /\ pos_w' = self.pos_w
    /\ pos_r' = self.pos_r
    /\ looping' = self.looping
    /\ output_l' = NoOutput
    /\ output_r' = NoOutput
    /\ UNCHANGED <<t, self, cur_s_l, cur_s_r, wet_s_l, wet_s_r, coeff, phase,
                   crossfaded, wrapped, written, ub>>

\* run(instance, n_samples), with the ports holding any of their values.
RunBegin ==
    \E n \in 0..MaxBlock, trigger \in Triggers, blend \in Blends :
        RunBeginWith(n, trigger, blend)

\* Storing with the last index left out: the capture ends one sample early.
Storing_Short(w, nl) == w < nl - 1

\* Storing with <= for <: the capture stores one sample too many.
Storing_Long(w, nl) == w <= nl

\* Line 217: the capture has samples left to store.
Storing(w, nl) == w < nl

\* Lines 216-227: the sample is stored.
Store(in, c) ==
    /\ self' = [self EXCEPT
                  !.buffer_l = Wr(self.buffer_l, pos_w, in[1] * c),
                  !.buffer_r = Wr(self.buffer_r, pos_w, in[2] * c)]
    /\ coeff' = c
    /\ pos_w' = pos_w + 1
    /\ ub' = (ub \/ (Divides(pos_w, self.n_fade_samples, self.n_loop_samples)
                        /\ self.n_fade_samples = 0))
    /\ phase' = "write"
    /\ written' = written \cup {pos_w}
    /\ UNCHANGED <<pos_r, listening, looping, wrapped>>

\* Lines 228-232: the capture is complete.
EndCapture ==
    /\ listening' = FALSE
    /\ looping' = TRUE
    /\ pos_w' = 0
    /\ coeff' = 1
    /\ phase' = "end"
    /\ UNCHANGED <<self, pos_r, wrapped, written, ub>>

\* Lines 204-260: one iteration of the loop.
RunSample ==
    /\ pc = "run"
    /\ i < n_samples
    /\ t' = (t + 1) % SignalPeriod
    /\ LET in == Signal(t) IN
        LET wet == Smooth(target_wet_gain, wet_gain)
            dry == Smooth(target_dry_gain, dry_gain)
            nf == self.n_fade_samples
            nl == self.n_loop_samples
            ws_l == IF ReadPhase(listening, looping)
                    THEN WetSample(self.buffer_l, pos_r, nf, nl, listening)
                    ELSE 0
            ws_r == IF ReadPhase(listening, looping)
                    THEN WetSample(self.buffer_r, pos_r, nf, nl, listening)
                    ELSE 0
        IN  /\ wet_gain' = wet
            /\ dry_gain' = dry
            /\ cur_s_l' = in[1]
            /\ cur_s_r' = in[2]
            /\ wet_s_l' = ws_l
            /\ wet_s_r' = ws_r
            /\ IF WritePhase(listening, looping)
               THEN IF Storing(pos_w, nl)
                    THEN \E c \in CoeffValues(pos_w, nf, nl) : Store(in, c)
                    ELSE EndCapture
               ELSE IF ReadPhase(listening, looping)
               THEN /\ pos_r' = NextPosR(pos_r, nf, nl, listening)
                    /\ looping' = NextLooping(pos_r, nl, listening)
                    /\ wrapped' = IF pos_r + 1 >= nl THEN ~listening
                                  ELSE wrapped
                    /\ written' = IF NextLooping(pos_r, nl, listening)
                                  THEN written ELSE {}
                    /\ coeff' = 1
                    /\ phase' = "read"
                    /\ UNCHANGED <<self, pos_w, listening, ub>>
               ELSE /\ coeff' = 1
                    /\ phase' = "skip"
                    /\ UNCHANGED <<self, pos_w, pos_r, listening, looping,
                                   wrapped, written, ub>>
            /\ crossfaded' = (/\ ReadPhase(listening, looping)
                              /\ CrossFade(pos_r, nf, nl, listening))
            /\ output_l' = [output_l EXCEPT ![i] = Mix(in[1], dry, ws_l, wet)]
            /\ output_r' = [output_r EXCEPT ![i] = Mix(in[2], dry, ws_r, wet)]
    /\ i' = i + 1
    /\ due' = IF listening THEN due - 1 ELSE due
    /\ UNCHANGED <<pc, ctl_blend, ctl_trigger, n_samples, target_dry_gain,
                   target_wet_gain, reset_dirty>>

\* Committed with line 261 left out: the write position is not written back.
Committed_LosesWriteCursor(s) ==
    [s EXCEPT !.pos_r = pos_r,
              !.dry_gain = dry_gain, !.wet_gain = wet_gain,
              !.looping = looping, !.listening = listening]

\* Lines 261-266: the shadow copies are written back, and run() returns.
Committed(s) ==
    [s EXCEPT !.pos_w = pos_w, !.pos_r = pos_r,
              !.dry_gain = dry_gain, !.wet_gain = wet_gain,
              !.looping = looping, !.listening = listening]

RunEnd ==
    /\ pc = "run"
    /\ i >= n_samples
    /\ pc' = "idle"
    /\ self' = Committed(self)
    /\ NoLocals
    /\ output_l' = NoOutput
    /\ output_r' = NoOutput
    /\ UNCHANGED <<t, wrapped, written, due, reset_dirty, ub>>

\* ------------------------------------------------------- specifications

Next ==
    \/ \E rate4 \in Rates : Instantiate(rate4)
    \/ Activate
    \/ RunBegin
    \/ RunSample
    \/ RunEnd
    \/ Cleanup

Spec == Init /\ [][Next]_vars

\* instantiate() alone, at the sample rates around the capacity limit.
NextInst ==
    \/ \E rate4 \in BoundaryRates : Instantiate(rate4)
    \/ Cleanup

SpecInst == Init /\ [][NextInst]_vars

\* The host holds the trigger port above 0: one instance, activated once,
\* whose run() is called for ever with blocks of one sample or more.
ActivateFresh == pc = "instantiated" /\ Activate

RunBeginHeld ==
    \E n \in 1..MaxBlock, blend \in Blends : RunBeginWith(n, 1, blend)

NextHeld ==
    \/ \E rate4 \in Rates : Instantiate(rate4)
    \/ ActivateFresh
    \/ RunBeginHeld
    \/ RunSample
    \/ RunEnd

SpecHeld == Init /\ [][NextHeld]_vars /\ WF_vars(NextHeld)

\* ------------------------------------------------------------- the claims

\* An instance exists and has been activated.
Active == pc \in {"idle", "run"}

\* The state machine's fields as they stand before the next sample: run()'s
\* shadow copies while it executes, the struct's fields between blocks.
WriteCursor == IF pc = "run" THEN pos_w ELSE self.pos_w
ReadCursor == IF pc = "run" THEN pos_r ELSE self.pos_r
IsListening == IF pc = "run" THEN listening ELSE self.listening
IsLooping == IF pc = "run" THEN looping ELSE self.looping

\* The step is one of run(): its start, one sample, or its return.
RunStep == pc = "run" \/ pc' = "run"

\* The step is one iteration of run()'s loop.
SampleStep == pc = "run" /\ pc' = "run"

\* C1, as the claim states it: in a block that run() starts with the trigger
\* > 0 while isListening is false, the first sample executes the write phase
\* and stores the input at writeCursor.
C1_CapturesFromFirstSample ==
    (pc = "run" /\ ctl_trigger > 0 /\ ~self.listening /\ i = 1)
        => /\ phase = "write"
           /\ Rd(self.buffer_l, self.pos_w) = cur_s_l * coeff

\* C1, amended: a block that starts with the trigger > 0 while isListening is
\* false sets isListening, and isLooping is true then; every sample processed
\* with isListening and isLooping both true executes the read phase and stores
\* nothing, and isLooping is cleared (with readCursor = 0), so that the write
\* phase is next, exactly when the read cursor reaches loopLengthSamples.
C1_CaptureWaitsForReadWrap ==
    [][/\ (pc = "idle" /\ pc' = "run" /\ ctl_trigger' > 0 /\ ~self.listening)
            => (listening' /\ looping')
       /\ (SampleStep /\ listening /\ looping)
            => /\ phase' = "read"
               /\ self' = self
               /\ pos_w' = pos_w
               /\ listening'
               /\ looping' = (pos_r + 1 < self.n_loop_samples)
               /\ (~looping' => pos_r' = 0)]_vars

\* C1's case: the first sample of a block started by the trigger has run.
C1_Witness ==
    /\ pc = "run" /\ ctl_trigger > 0 /\ ~self.listening /\ i = 1
    /\ listening /\ phase = "read"

\* C2, as the claim states it: run() with block length 0 writes no output
\* sample and returns with every field of the state as it was.
C2_ZeroBlockChangesNothing ==
    [][(pc = "run" /\ n_samples = 0 /\ pc' = "idle")
            => /\ self' = self
               /\ output_l = NoOutput /\ output_r = NoOutput]_vars

\* C3, as the claim states it: between blocks and before every sample,
\* 0 <= writeCursor < loopLengthSamples and 0 <= readCursor < loopLengthSamples.
C3_CursorsBelowLoopLength ==
    Active => /\ 0 <= WriteCursor /\ WriteCursor < self.n_loop_samples
              /\ 0 <= ReadCursor /\ ReadCursor < self.n_loop_samples

\* C3, amended: between blocks and before every sample,
\* 0 <= writeCursor <= loopLengthSamples and 0 <= readCursor < loopLengthSamples.
C3_CursorsInRange ==
    Active => /\ 0 <= WriteCursor /\ WriteCursor <= self.n_loop_samples
              /\ 0 <= ReadCursor /\ ReadCursor < self.n_loop_samples

\* C3's case: a block has ended with the capture's last sample stored, the
\* write cursor standing at loopLengthSamples.
C3_Witness ==
    /\ pc = "idle" /\ self.listening /\ ~self.looping
    /\ self.pos_w = self.n_loop_samples

\* C4, as the claim states it: instantiate() yields no instance whose
\* loopLengthSamples exceeds MAX_TAPE_LEN.
C4_LoopFitsCapacity ==
    pc = "instantiated" => self.n_loop_samples <= MAX_TAPE_LEN

\* C5: in a state with isListening false and isLooping true, a step of run()
\* other than the start of a block with the trigger > 0 leaves isListening
\* false, isLooping true and both buffers as they are.
C5_NoCaptureWithoutTrigger ==
    [][(/\ RunStep
        /\ ~IsListening /\ IsLooping
        /\ ~(pc = "idle" /\ ctl_trigger' > 0))
            => /\ ~IsListening' /\ IsLooping'
               /\ self'.buffer_l = self.buffer_l
               /\ self'.buffer_r = self.buffer_r]_vars

\* C5's case: a capture has completed and the loop has wrapped since, and a
\* block started without the trigger has processed a sample.
C5_Witness ==
    /\ pc = "run" /\ ctl_trigger <= 0 /\ i > 0
    /\ ~listening /\ looping /\ wrapped
    /\ DOMAIN self.buffer_l # {}

\* C6: a sample processed in the write phase has wet samples 0 on both
\* channels, and its output is input * dryGain.
C6_CaptureIsDryOnly ==
    (pc = "run" /\ phase \in {"write", "end"})
        => /\ wet_s_l = 0 /\ wet_s_r = 0
           /\ output_l[i - 1] = cur_s_l * dry_gain
           /\ output_r[i - 1] = cur_s_r * dry_gain

\* C6's case: a sample was stored while the buffer held a non-zero sample at
\* the read cursor and the wet gain was not 0.
C6_Witness ==
    /\ pc = "run" /\ phase = "write"
    /\ Rd(self.buffer_l, pos_r) # 0 /\ wet_gain > 0 /\ dry_gain > 0

\* C7: a sample of the read phase with isListening false that takes the read
\* cursor to loopLengthSamples leaves it at fadeLengthSamples; and once the
\* cursor has so wrapped it stays >= fadeLengthSamples until the next capture.
C7_ReadWrapsToFadeOffset ==
    [][/\ (/\ SampleStep /\ ReadPhase(listening, looping) /\ ~listening
           /\ pos_r + 1 >= self.n_loop_samples)
            => (pos_r' = self.n_fade_samples /\ wrapped')
       /\ (Active' /\ wrapped') => ReadCursor' >= self.n_fade_samples']_vars

\* C7's case: the read cursor has just wrapped, to a fade offset that is not 0.
C7_Witness ==
    /\ pc = "run" /\ phase = "read" /\ wrapped /\ ~listening
    /\ self.n_fade_samples > 0 /\ pos_r = self.n_fade_samples

\* C8, as the claim states it: the sample stored at index w is input * c with
\* c = w / fadeLengthSamples in the fade-in, (loopLengthSamples - 1 - w) /
\* fadeLengthSamples in the fade-out and 1 between them, the division exact.
C8_StoresExactFade ==
    (pc = "run" /\ phase = "write") =>
        LET w == pos_w - 1
            nf == self.n_fade_samples
            nl == self.n_loop_samples
        IN  IF w < nf
            THEN /\ Rd(self.buffer_l, w) * nf = cur_s_l * w
                 /\ Rd(self.buffer_r, w) * nf = cur_s_r * w
            ELSE IF w >= nl - nf
            THEN /\ Rd(self.buffer_l, w) * nf = cur_s_l * (nl - 1 - w)
                 /\ Rd(self.buffer_r, w) * nf = cur_s_r * (nl - 1 - w)
            ELSE /\ Rd(self.buffer_l, w) = cur_s_l
                 /\ Rd(self.buffer_r, w) = cur_s_r

\* C9, as the claim states it: for every offset o in [0, fadeLengthSamples)
\* the coefficient applied at loopLengthSamples - fadeLengthSamples + o and the
\* one applied at o sum to 1.
C9_FadesSumToOne ==
    Active =>
        LET nf == self.n_fade_samples
            nl == self.n_loop_samples
        IN  \A o \in 0..(nf - 1) :
                Coeff(nl - nf + o, nf, nl) + Coeff(o, nf, nl) = 1

\* C10: with fadeLengthSamples = 0 run() executes no division by zero, and
\* every sample it stores is the input itself (the coefficient is 1).
C10_ZeroFadeIsNoFade ==
    (Active /\ self.n_fade_samples = 0)
        => /\ ~ub
           /\ (pc = "run" /\ phase = "write")
                => /\ coeff = 1
                   /\ Rd(self.buffer_l, pos_w - 1) = cur_s_l
                   /\ Rd(self.buffer_r, pos_w - 1) = cur_s_r

\* C10's case: with fadeLengthSamples = 0 a whole capture has been stored.
C10_Witness ==
    /\ pc = "run" /\ phase = "write" /\ self.n_fade_samples = 0
    /\ pos_w = self.n_loop_samples /\ pos_w > 1

\* C11: activate(), in whatever state it is called, leaves every element of
\* both buffers 0, writeCursor = 0, readCursor = 0, dryGain = 0, wetGain = 0,
\* isListening = false and isLooping = true, and leaves the sample rate,
\* loopLengthSamples and fadeLengthSamples as they were.
C11_ActivateResets ==
    [][(pc \in {"instantiated", "idle"} /\ pc' = "idle")
            => /\ DOMAIN self'.buffer_l = {} /\ DOMAIN self'.buffer_r = {}
               /\ self'.pos_w = 0 /\ self'.pos_r = 0
               /\ self'.dry_gain = 0 /\ self'.wet_gain = 0
               /\ ~self'.listening /\ self'.looping
               /\ self'.rate = self.rate
               /\ self'.n_loop_samples = self.n_loop_samples
               /\ self'.n_fade_samples = self.n_fade_samples]_vars

\* C11's case: activate() has returned, having been called on a state that
\* was not the reset state.
C11_Witness ==
    /\ pc = "idle" /\ reset_dirty
    /\ self.pos_r = 0 /\ DOMAIN self.buffer_l = {}

\* C12: the start of a block sets the gain targets by the piecewise law, and
\* changes no field of the state: blend 0 gives (dry, wet) = (1, 0), 50 gives
\* (1, 1), 100 gives (0, 1), a blend in (0, 50) keeps dry = 1, a blend in
\* (50, 100) keeps wet = 1, and a blend outside [0, 100] gives (1, 0).
C12_GainTargets ==
    [][(pc = "idle" /\ pc' = "run")
            => LET b == ctl_blend'
                   dry == target_dry_gain'
                   wet == target_wet_gain'
               IN  /\ b = 0 => (dry = GainOne /\ wet = 0)
                   /\ b = 50 => (dry = GainOne /\ wet = GainOne)
                   /\ b = 100 => (dry = 0 /\ wet = GainOne)
                   /\ (b > 0 /\ b < 50) => (dry = GainOne /\ wet < GainOne)
                   /\ (b > 50 /\ b < 100) => (wet = GainOne /\ dry < GainOne)
                   /\ (b < 0 \/ b > 100) => (dry = GainOne /\ wet = 0)
                   /\ self' = self]_vars

\* C12's case: a block run with the blend above 100 has processed a sample.
C12_Witness ==
    /\ pc = "run" /\ ctl_blend > 100 /\ i > 0
    /\ target_dry_gain = GainOne /\ target_wet_gain = 0

\* C13: once activated, isListening and isLooping are never both false, so
\* no sample passes through the loop without taking the write-phase branch
\* or the read-phase branch (and the two exclude each other).
C13_OnePhasePerSample ==
    Active => /\ IsListening \/ IsLooping
              /\ phase # "skip"
              /\ ~(WritePhase(IsListening, IsLooping)
                     /\ ReadPhase(IsListening, IsLooping))
              /\ (WritePhase(IsListening, IsLooping)
                     \/ ReadPhase(IsListening, IsLooping))

\* C13's case: the read phase has just cleared isLooping, handing over to a
\* capture, after an earlier capture had set it.
C13_Witness ==
    /\ pc = "run" /\ phase = "read" /\ listening /\ ~looping
    /\ DOMAIN self.buffer_l # {}

\* C14: in the write phase the indices stored so far are exactly
\* 0 .. writeCursor - 1.  A sample processed there with writeCursor <
\* loopLengthSamples stores input * coeff at writeCursor, changes no other
\* element and adds 1 to writeCursor; one processed with writeCursor =
\* loopLengthSamples stores nothing, sets isListening = false, isLooping =
\* true and writeCursor = 0 and leaves readCursor and both buffers as they
\* are, loopLengthSamples samples having been stored; and the start and the
\* end of a block leave the capture where it was.
C14_CaptureStoresLoopLength ==
    [][LET nl == self.n_loop_samples
           capturing == Active /\ WritePhase(IsListening, IsLooping)
       IN  /\ capturing => written = 0..(WriteCursor - 1)
           /\ (SampleStep /\ capturing /\ pos_w < nl)
                => /\ pos_w' = pos_w + 1
                   /\ Rd(self'.buffer_l, pos_w) = Signal(t)[1] * coeff'
                   /\ Rd(self'.buffer_r, pos_w) = Signal(t)[2] * coeff'
                   /\ \A k \in (0..(nl - 1)) \ {pos_w} :
                        /\ Rd(self'.buffer_l, k) = Rd(self.buffer_l, k)
                        /\ Rd(self'.buffer_r, k) = Rd(self.buffer_r, k)
                   /\ written' = written \cup {pos_w}
                   /\ listening' /\ ~looping' /\ pos_r' = pos_r
           /\ (SampleStep /\ capturing /\ pos_w >= nl)
                => /\ pos_w = nl /\ written = 0..(nl - 1)
                   /\ self' = self
                   /\ ~listening' /\ looping' /\ pos_w' = 0
                   /\ pos_r' = pos_r
           /\ (RunStep /\ ~SampleStep /\ capturing)
                => /\ WritePhase(IsListening', IsLooping')
                   /\ WriteCursor' = WriteCursor
                   /\ ReadCursor' = ReadCursor
                   /\ self'.buffer_l = self.buffer_l
                   /\ self'.buffer_r = self.buffer_r]_vars

\* C14's case: a capture of more than two samples, its last sample stored in
\* a block that began in the middle of it, has just completed.
C14_Witness ==
    /\ pc = "run" /\ phase = "end" /\ i = 2
    /\ self.n_loop_samples > 2
    /\ self.pos_w = self.n_loop_samples - 1
    /\ written = 0..(self.n_loop_samples - 1)

\* C15: a sample processed with isListening and isLooping both true plays
\* buffer[readCursor] alone, without the crossfade sum, and advances the read
\* cursor; when that takes the cursor to loopLengthSamples, readCursor is set
\* to 0 and isLooping is cleared; and a sample processed with isListening
\* true and isLooping false runs the write phase.
C15_PendingCapturePlaysOut ==
    [][/\ (SampleStep /\ listening /\ looping)
            => /\ phase' = "read" /\ ~crossfaded'
               /\ wet_s_l' = Rd(self.buffer_l, pos_r)
               /\ wet_s_r' = Rd(self.buffer_r, pos_r)
               /\ IF pos_r + 1 >= self.n_loop_samples
                  THEN pos_r' = 0 /\ ~looping'
                  ELSE pos_r' = pos_r + 1 /\ looping'
       /\ (SampleStep /\ listening /\ ~looping)
            => phase' \in {"write", "end"}]_vars

\* C15's case: with a fade length that is not 0, the read phase has played
\* the last sample of the loop under a pending capture, and has wrapped to 0.
C15_Witness ==
    /\ pc = "run" /\ phase = "read" /\ ~crossfaded
    /\ listening /\ ~looping /\ pos_r = 0
    /\ self.n_fade_samples > 0

\* C16: whenever isLooping is true, so whenever the read phase reads, either
\* no index has been stored since the reset and both buffers are silent, or
\* the capture that completed last has stored every index of
\* [0, loopLengthSamples) and no capture has stored anything since.
C16_OneGeneration ==
    (Active /\ IsLooping)
        => \/ /\ written = {}
              /\ DOMAIN self.buffer_l = {} /\ DOMAIN self.buffer_r = {}
           \/ written = 0..(self.n_loop_samples - 1)

\* C16's case: the loop of a completed capture is being played after its
\* first wrap, and the sample read was not silence.
C16_Witness ==
    /\ pc = "run" /\ phase = "read" /\ wrapped /\ wet_s_l # 0
    /\ written = 0..(self.n_loop_samples - 1)

\* C17: once activated, isLooping true implies writeCursor = 0, and the write
\* phase (isListening true, isLooping false) implies readCursor = 0.
C17_PhasesStartAtZero ==
    Active => /\ IsLooping => WriteCursor = 0
              /\ WritePhase(IsListening, IsLooping) => ReadCursor = 0

\* C17's case: a capture is storing over the loop of an earlier capture,
\* whose playback had moved the read cursor.
C17_Witness ==
    /\ pc = "run" /\ phase = "write" /\ pos_r = 0
    /\ \E k \in DOMAIN self.buffer_l : k >= pos_w

C20_HeldTriggerPlaysOnePass == Active => ~wrapped

\* C20: run() reads the trigger at its start only: a sample may clear
\* isListening and never sets it. A block that starts with isListening true
\* carries the capture on as it was, trigger or not; one that starts with
\* isListening false and the trigger > 0 sets isListening, right after a
\* capture too. With the trigger held > 0, playback without a capture pending
\* is the rest of the block in which a capture completed, and wraps the read
\* cursor only if that rest is loopLengthSamples samples or more; and captures
\* and playback both recur for ever.
C20_HeldTriggerRecaptures ==
    /\ [][LET nl == self.n_loop_samples
          IN  /\ SampleStep => (listening' => listening)
              /\ (pc = "idle" /\ pc' = "run")
                   => /\ listening' = (self.listening \/ ctl_trigger' > 0)
                      /\ self.listening
                           => /\ self' = self /\ due' = due
                              /\ written' = written
                              /\ pos_w' = self.pos_w /\ pos_r' = self.pos_r
                              /\ looping' = self.looping
              /\ (SampleStep /\ ~listening)
                   => (i >= 1 /\ due = 0 /\ phase \in {"end", "read"})
              /\ (SampleStep /\ ~listening /\ pos_r + 1 >= nl)
                   => i' >= nl + 1]_vars
    /\ []<>(pc = "run" /\ phase = "end")
    /\ []<>(pc = "run" /\ phase = "read" /\ listening)
    /\ []<>(pc = "run" /\ phase = "write")

\* C20's case: the trigger still held, a second capture stores over the loop
\* that the first one recorded.
C20_Witness ==
    /\ pc = "run" /\ phase = "write" /\ ctl_trigger > 0
    /\ \E k \in (0..(self.n_loop_samples - 1)) \ written :
         Rd(self.buffer_l, k) # 0

====
